---- MODULE Spec2Model ----
(***************************************************************************)
(* ClaudeCodeAgent (src/agents/claude_code_agent.py): the headless agent   *)
(* execution core.  execute_prompt asks the operator for confirmation,     *)
(* spawns the agent subprocess, consumes its line-delimited JSON stream,   *)
(* waits for the exit code, reads standard error and reconciles the exit   *)
(* code with the result artifact.  The subprocess, the operator, the       *)
(* artifact file and wall-clock time are the environment.                  *)
(*                                                                         *)
(* Python str values are TLA+ strings; s[:n], lower(), strip() and the     *)
(* `in` substring test are computed character by character.                *)
(***************************************************************************)
EXTENDS Integers, Sequences, FiniteSets, TLC

(***************************************************************************)
(* Bounds of the model.                                                    *)
(***************************************************************************)
\* lines the subprocess may write to standard output during one call
MaxLines == 2
\* chunks the subprocess may write to standard error during one call
MaxStderr == 2
\* wall-clock ticks observed
MaxClock == 3

\* chunks the pipe of stderr=subprocess.PIPE (line 149) buffers before a
\* write to it blocks
StderrPipeCapacity == 1

\* config.agent_timeout_seconds (line 176), in ticks; the value is the configuration's
agent_timeout_seconds == 2

Min(a, b) == IF a < b THEN a ELSE b

(***************************************************************************)
(* Python str operations.                                                  *)
(***************************************************************************)
Whitespace == {" ", "\n", "\t", "\r"}

UpperToLower ==
    [c \in {"Y", "N", "E", "S", "R", "O", "F", "A", "I", "L", "D", "U", "C"} |->
        CASE c = "Y" -> "y" [] c = "N" -> "n" [] c = "E" -> "e" [] c = "S" -> "s"
          [] c = "R" -> "r" [] c = "O" -> "o" [] c = "F" -> "f" [] c = "A" -> "a"
          [] c = "I" -> "i" [] c = "L" -> "l" [] c = "D" -> "d" [] c = "U" -> "u"
          [] c = "C" -> "c"]

\* str.lower()
RECURSIVE lower(_)
lower(s) ==
    IF s = "" THEN ""
    ELSE IF Len(s) = 1
    THEN (IF s \in DOMAIN UpperToLower THEN UpperToLower[s] ELSE s)
    ELSE LET half == Len(s) \div 2
         IN  lower(SubSeq(s, 1, half)) \o lower(SubSeq(s, half + 1, Len(s)))

RECURSIVE lstrip(_)
lstrip(s) == IF s # "" /\ Head(s) \in Whitespace THEN lstrip(Tail(s)) ELSE s

RECURSIVE rstrip(_)
rstrip(s) ==
    IF s # "" /\ SubSeq(s, Len(s), Len(s)) \in Whitespace
    THEN rstrip(SubSeq(s, 1, Len(s) - 1))
    ELSE s

\* str.strip()
strip(s) == rstrip(lstrip(s))

\* s[:n]
Prefix(s, n) == SubSeq(s, 1, Min(n, Len(s)))

\* sub in s
Contains(s, sub) ==
    \E i \in 1..(Len(s) - Len(sub) + 1) : SubSeq(s, i, i + Len(sub) - 1) = sub

\* sep.join(xs) for a list of str
RECURSIVE join(_, _)
join(sep, xs) ==
    IF xs = <<>> THEN ""
    ELSE IF Len(xs) = 1 THEN xs[1]
    ELSE xs[1] \o sep \o join(sep, Tail(xs))

\* os.path.basename
RECURSIVE basename(_)
basename(p) ==
    IF Contains(p, "/") THEN basename(Tail(p)) ELSE p

(***************************************************************************)
(* Decoded JSON values, tagged by their Python type.                       *)
(***************************************************************************)
JNull == [jt |-> "NoneType"]
JStr(s) == [jt |-> "str", s |-> s]
JNum(n) == [jt |-> "int", n |-> n]
JList(xs) == [jt |-> "list", xs |-> xs]
JDict(kv) == [jt |-> "dict", kv |-> kv]
EmptyDict == JDict(<<>>)

IsDict(v) == v.jt = "dict"
\* v == 'lit' for a str literal
Eq(v, lit) == v.jt = "str" /\ v.s = lit
\* d.get(key, default) on a dict
Get(d, key, default) == IF key \in DOMAIN d.kv THEN d.kv[key] ELSE default
\* bool(v)
Truthy(v) ==
    CASE v.jt = "NoneType" -> FALSE
      [] v.jt = "str" -> v.s # ""
      [] v.jt = "int" -> v.n # 0
      [] v.jt = "list" -> v.xs # <<>>
      [] v.jt = "dict" -> DOMAIN v.kv # {}
\* the message of the AttributeError raised by v.attr
AttributeError(v, attr) ==
    "'" \o v.jt \o "' object has no attribute '" \o attr \o "'"
\* str(v) as an f-string renders it, for the scalar values the stream carries
Format(v) ==
    CASE v.jt = "str" -> v.s
      [] v.jt = "int" -> ToString(v.n)
      [] v.jt = "NoneType" -> "None"

(***************************************************************************)
(* The lines the modelled subprocess can write, and json.loads on each     *)
(* (after strip()).  json.loads either raises json.JSONDecodeError or      *)
(* returns the decoded value.                                              *)
(***************************************************************************)
L_text == "working on it\n"
L_blank == "  \n"
L_list == "[1]\n"
L_init == "{\"type\":\"system\",\"subtype\":\"init\",\"model\":\"m1\",\"tools\":[\"Read\",\"Bash\"]}\n"
L_assistant == "{\"type\":\"assistant\",\"message\":{\"content\":[{\"type\":\"text\",\"text\":\"hi\"},{\"type\":\"tool_use\",\"name\":\"Bash\",\"input\":{\"command\":\"ls\"}}]}}\n"
L_badmessage == "{\"type\":\"assistant\",\"message\":\"hi\"}\n"
L_baditem == "{\"type\":\"assistant\",\"message\":{\"content\":[{\"type\":\"text\",\"text\":\"hi\"},7]}}\n"
L_toolresult == "{\"type\":\"user\",\"message\":{\"content\":[{\"type\":\"tool_result\",\"content\":\"File created successfully\"}]}}\n"
L_toolresultlist == "{\"type\":\"user\",\"message\":{\"content\":[{\"type\":\"tool_result\",\"content\":[{\"type\":\"text\",\"text\":\"ok\"}]}]}}\n"
L_failed == "{\"type\":\"result\",\"subtype\":\"error\",\"error\":\"boom\"}\n"

\* lines json.loads rejects
NotJsonLines == {L_text, L_blank}
\* valid JSON that _display_claude_progress renders
WellFormedLines == {L_init, L_assistant, L_toolresult, L_failed}
\* valid JSON of a shape _display_claude_progress does not expect
UnexpectedShapeLines == {L_list, L_badmessage, L_baditem, L_toolresultlist}

\* every line json_loads is tabulated for
KnownLines == NotJsonLines \cup WellFormedLines \cup UnexpectedShapeLines
\* the lines the modelled subprocess writes during a call
StreamLines == KnownLines \ {L_init, L_failed}

TextItem(t) == JDict("type" :> JStr("text") @@ "text" :> JStr(t))

json_loads(text) ==
    CASE text = strip(L_text) -> [ok |-> FALSE, val |-> JNull]
      [] text = strip(L_blank) -> [ok |-> FALSE, val |-> JNull]
      [] text = strip(L_list) -> [ok |-> TRUE, val |-> JList(<<JNum(1)>>)]
      [] text = strip(L_init) ->
           [ok |-> TRUE,
            val |-> JDict("type" :> JStr("system") @@ "subtype" :> JStr("init")
                          @@ "model" :> JStr("m1")
                          @@ "tools" :> JList(<<JStr("Read"), JStr("Bash")>>))]
      [] text = strip(L_assistant) ->
           [ok |-> TRUE,
            val |-> JDict("type" :> JStr("assistant") @@ "message" :>
                       JDict("content" :> JList(<<
                          TextItem("hi"),
                          JDict("type" :> JStr("tool_use") @@ "name" :> JStr("Bash")
                                @@ "input" :> JDict("command" :> JStr("ls")))>>)))]
      [] text = strip(L_badmessage) ->
           [ok |-> TRUE,
            val |-> JDict("type" :> JStr("assistant") @@ "message" :> JStr("hi"))]
      [] text = strip(L_baditem) ->
           [ok |-> TRUE,
            val |-> JDict("type" :> JStr("assistant") @@ "message" :>
                       JDict("content" :> JList(<<TextItem("hi"), JNum(7)>>)))]
      [] text = strip(L_toolresult) ->
           [ok |-> TRUE,
            val |-> JDict("type" :> JStr("user") @@ "message" :>
                       JDict("content" :> JList(<<
                          JDict("type" :> JStr("tool_result")
                                @@ "content" :> JStr("File created successfully"))>>)))]
      [] text = strip(L_toolresultlist) ->
           [ok |-> TRUE,
            val |-> JDict("type" :> JStr("user") @@ "message" :>
                       JDict("content" :> JList(<<
                          JDict("type" :> JStr("tool_result")
                                @@ "content" :> JList(<<TextItem("ok")>>))>>)))]
      [] text = strip(L_failed) ->
           [ok |-> TRUE,
            val |-> JDict("type" :> JStr("result") @@ "subtype" :> JStr("error")
                          @@ "error" :> JStr("boom"))]

(***************************************************************************)
(* _display_claude_progress.  The result of rendering is the sequence of   *)
(* texts printed and, when rendering raised, the exception's message (the  *)
(* texts printed before the raise stay printed).                           *)
(***************************************************************************)
NoException == ""
Returned(out) == [out |-> out, exc |-> NoException]
Raised(out, msg) == [out |-> out, exc |-> msg]

\* type 'system' (lines 46-52)
DisplaySystem(json_obj) ==
    IF Eq(Get(json_obj, "subtype", JNull), "init")
    THEN LET tools == Get(json_obj, "tools", JList(<<>>))
             head == << "Initializing Claude session...",
                        "   Model: " \o Format(Get(json_obj, "model", JStr("unknown"))) >>
         IN  IF Truthy(tools)
             THEN LET names == [i \in 1..Len(tools.xs) |-> tools.xs[i].s]
                  IN  Returned(head \o << "   Available tools: "
                                          \o join(", ", SubSeq(names, 1, Min(5, Len(names))))
                                          \o (IF Len(names) > 5 THEN "..." ELSE "") >>)
             ELSE Returned(head)
    ELSE Returned(<<>>)

\* the file-tool branches of a tool_use item (lines 69-83)
DisplayFileTool(content_item, verb, printed) ==
    LET input_data == Get(content_item, "input", EmptyDict)
    IN  IF ~IsDict(input_data) THEN Raised(printed, AttributeError(input_data, "get"))
        ELSE LET file_path == Get(input_data, "file_path", JStr(""))
             IN  IF Truthy(file_path)
                 THEN Returned(printed \o << "   " \o verb \o " file: " \o basename(file_path.s) >>)
                 ELSE Returned(printed)

\* a variant of DisplayBashTool that marks every command as cut
DisplayBashToolAlwaysMarked(content_item, printed) ==
    LET input_data == Get(content_item, "input", EmptyDict)
    IN  IF ~IsDict(input_data) THEN Raised(printed, AttributeError(input_data, "get"))
        ELSE LET command == Get(input_data, "command", JStr(""))
             IN  IF Truthy(command)
                 THEN Returned(printed \o << "   Running: " \o Prefix(command.s, 50) \o "..." >>)
                 ELSE Returned(printed)

\* the Bash branch of a tool_use item (lines 84-88)
DisplayBashTool(content_item, printed) ==
    LET input_data == Get(content_item, "input", EmptyDict)
    IN  IF ~IsDict(input_data) THEN Raised(printed, AttributeError(input_data, "get"))
        ELSE LET command == Get(input_data, "command", JStr(""))
             IN  IF Truthy(command)
                 THEN Returned(printed \o << "   Running: " \o Prefix(command.s, 50)
                                            \o (IF Len(command.s) > 50 THEN "..." ELSE "") >>)
                 ELSE Returned(printed)

\* one content item of an assistant message (lines 59-88)
DisplayAssistantItem(content_item) ==
    IF ~IsDict(content_item) THEN Raised(<<>>, AttributeError(content_item, "get"))
    ELSE IF Eq(Get(content_item, "type", JNull), "text")
    THEN LET text == Get(content_item, "text", JStr(""))
         IN  IF text.jt # "str" THEN Raised(<<>>, AttributeError(text, "strip"))
             ELSE IF strip(text.s) # "" THEN Returned(<< "\n" \o text.s >>)
             ELSE Returned(<<>>)
    ELSE IF Eq(Get(content_item, "type", JNull), "tool_use")
    THEN LET tool_name == Get(content_item, "name", JStr("unknown"))
             printed == << "\nUsing tool: " \o Format(tool_name) >>
         IN  CASE Eq(tool_name, "Write") -> DisplayFileTool(content_item, "Creating", printed)
               [] Eq(tool_name, "Edit") -> DisplayFileTool(content_item, "Editing", printed)
               [] Eq(tool_name, "Read") -> DisplayFileTool(content_item, "Reading", printed)
               [] Eq(tool_name, "Bash") -> DisplayBashTool(content_item, printed)
               [] OTHER -> Returned(printed)
    ELSE Returned(<<>>)

\* one content item of a user message (lines 95-102)
DisplayUserItem(content_item) ==
    IF ~IsDict(content_item) THEN Raised(<<>>, AttributeError(content_item, "get"))
    ELSE IF Eq(Get(content_item, "type", JNull), "tool_result")
    THEN LET result_content == Get(content_item, "content", JStr(""))
         IN  IF result_content.jt # "str"
             THEN Raised(<<>>, AttributeError(result_content, "lower"))
             ELSE IF Contains(lower(result_content.s), "successfully")
             THEN Returned(<< "   Success" >>)
             ELSE IF Contains(lower(result_content.s), "error")
                     \/ Contains(lower(result_content.s), "failed")
             THEN Returned(<< "   Error: " \o Prefix(result_content.s, 100) \o "..." >>)
             ELSE Returned(<< "   " \o Prefix(result_content.s, 100)
                              \o (IF Len(result_content.s) > 100 THEN "..." ELSE "") >>)
    ELSE Returned(<<>>)

\* for content_item in content: ...  (the loop stops at the first raise)
RECURSIVE DisplayItems(_, _)
DisplayItems(role, items) ==
    IF items = <<>> THEN Returned(<<>>)
    ELSE LET first == IF role = "assistant" THEN DisplayAssistantItem(Head(items))
                                            ELSE DisplayUserItem(Head(items))
         IN  IF first.exc # NoException THEN first
             ELSE LET rest == DisplayItems(role, Tail(items))
                  IN  [out |-> first.out \o rest.out, exc |-> rest.exc]

\* types 'assistant' and 'user' (lines 54-58, 90-94)
DisplayMessage(role, json_obj) ==
    LET message == Get(json_obj, "message", EmptyDict)
    IN  IF ~IsDict(message) THEN Raised(<<>>, AttributeError(message, "get"))
        ELSE LET content == Get(message, "content", JList(<<>>))
             IN  CASE content.jt = "list" -> DisplayItems(role, content.xs)
                   [] content.jt = "str" ->
                        \* iterates the characters: each is a str without .get
                        IF content.s = "" THEN Returned(<<>>)
                        ELSE Raised(<<>>, AttributeError(content, "get"))
                   [] content.jt \in {"int", "NoneType"} ->
                        Raised(<<>>, "'" \o content.jt \o "' object is not iterable")

\* type 'result' (lines 104-114); duration_ms and cost_usd rendered for
\* whole tenths of a second and whole dollars
DisplayResult(json_obj) ==
    IF Eq(Get(json_obj, "subtype", JNull), "success")
    THEN LET result == Get(json_obj, "result", JStr(""))
             cost == Get(json_obj, "cost_usd", JNum(0))
             duration == Get(json_obj, "duration_ms", JNum(0))
             head == << "\nTask completed successfully!" >>
                     \o (IF Truthy(result) THEN << "   Result: " \o Format(result) >> ELSE <<>>)
         IN  CASE duration.jt = "int" /\ duration.n % 100 = 0 /\ cost.jt = "int" ->
                    Returned(head \o << "   Duration: " \o ToString(duration.n \div 1000) \o "."
                                        \o ToString((duration.n % 1000) \div 100)
                                        \o "s, Cost: $" \o ToString(cost.n) \o ".0000" >>)
               [] duration.jt \in {"str", "list", "dict", "NoneType"} ->
                    Raised(head, "unsupported operand type(s) for /: '" \o duration.jt
                                 \o "' and 'int'")
    ELSE Returned(<< "\nTask failed: " \o Format(Get(json_obj, "error", JStr("Unknown error"))) >>)

_display_claude_progress(json_obj) ==
    IF ~IsDict(json_obj) THEN Raised(<<>>, AttributeError(json_obj, "get"))
    ELSE LET type == Get(json_obj, "type", JNull)
         IN  CASE Eq(type, "system") -> DisplaySystem(json_obj)
               [] Eq(type, "assistant") -> DisplayMessage("assistant", json_obj)
               [] Eq(type, "user") -> DisplayMessage("user", json_obj)
               [] Eq(type, "result") -> DisplayResult(json_obj)
               [] OTHER -> Returned(<<>>)

(***************************************************************************)
(* The body of one read-loop iteration for a non-empty `output` (lines     *)
(* 164-173): what it prints, and the exception that leaves the loop, if    *)
(* any.  Only json.JSONDecodeError is caught here.                         *)
(***************************************************************************)
ProcessLine(output) ==
    LET parsed == json_loads(strip(output))
    IN  IF parsed.ok THEN _display_claude_progress(parsed.val)
        ELSE IF strip(output) # "" THEN Returned(<< "[Output]: " \o strip(output) >>)
        ELSE Returned(<<>>)

(***************************************************************************)
(* The environment's choices.                                              *)
(***************************************************************************)
\* what the operator may type at the confirmation prompt
Answers == {"y", "Y", "n", "N", "", "yes", "Yes", " y"}
\* exit codes of the subprocess
ExitCodes == {0, 1, 2}
\* what the subprocess may write to standard error
StderrChunks == {"permission denied"}
\* str(e) of the OSError subprocess.Popen raises when the binary cannot start
LaunchErrors == {"[Errno 2] No such file or directory: 'claude'"}
\* str(e) of the exception the artifact reader fails with
ReaderErrors == {"", "output file not found"}

\* the result artifact on disk
Missing == [state |-> "missing", text |-> ""]
Present(text) == [state |-> "present", text |-> text]
StaleText == "old summary"
FreshText == "new summary"

(***************************************************************************)
(* AgentResponse and the outcome of a call.                                *)
(***************************************************************************)
\* AgentResponse.error_message when the constructor is not given one
DefaultErrorMessage == ""

NoOutcome ==
    [kind |-> "none", success |-> FALSE, content |-> "", error_message |-> ""]
AgentResponse(content, success, error_message) ==
    [kind |-> "returned", success |-> success, content |-> content,
     error_message |-> error_message]
\* the call ends by raising AgentTimeoutException(agent_name, timeout, message)
AgentTimeoutException(timeout, message) ==
    [kind |-> "raised", success |-> FALSE, content |-> "",
     error_message |-> message, timeout |-> timeout]

VARIABLES
    pc,            \* where execute_prompt is: confirm, spawn, read, wait, stderr,
                   \* reconcile, done
    approval,      \* the operator's answer
    proc,          \* the subprocess: not_started, running, exited, killed
    exit_code,     \* the code the subprocess exited with
    stdoutOpen,    \* the subprocess holds its standard output open
    stdoutPipe,    \* lines written to standard output and not yet read
    stderrPipe,    \* chunks written to standard error and not yet read
    artifact,      \* the result artifact
    stdout_lines,  \* the transcript
    stderr_lines,
    return_code,
    console,       \* what the stream loop printed, in order
    outcome,       \* how the call ended
    clock,         \* ticks since the spawn, counted while the subprocess runs
    wait_started,  \* the tick at which process.wait was entered
    emitted,       \* history: every line the subprocess wrote to standard output
    spawned,       \* history: subprocesses spawned by the call
    overran,       \* history: the subprocess was still running after the timeout
    artifact_read, \* history: the call has read the result artifact
    stderr_blocked, \* the subprocess is inside a write to standard error that
                   \* the full pipe does not take
    repo_dir,      \* self.repo_dir
    current_project_name,  \* self._current_project_name
    cwd,           \* the working directory of the Python process
    claude_on_path,        \* `which claude` finds the binary
    ready_op,      \* history: the readiness operation that returned last
    ready_result,  \* what it returned
    pre_repo_dir,  \* history: repo_dir when that operation was called
    pre_project_name,      \* history: the project name when it was called
    tool_text,     \* the text of a tool result, or the command of a Bash tool use
    render_op,     \* history: the kind of event _display_claude_progress was given
    rendered       \* what it printed for that event

vars == << pc, approval, proc, exit_code, stdoutOpen, stdoutPipe, stderrPipe,
           artifact, stdout_lines, stderr_lines, return_code, console, outcome,
           clock, wait_started, emitted, spawned, overran, artifact_read,
           stderr_blocked, repo_dir, current_project_name, cwd, claude_on_path, ready_op,
           ready_result, pre_repo_dir, pre_project_name, tool_text, render_op,
           rendered >>

\* the state of one execute_prompt call and of its subprocess
executeVars == << pc, approval, proc, exit_code, stdoutOpen, stdoutPipe, stderrPipe,
                  artifact, stdout_lines, stderr_lines, return_code, console, outcome,
                  clock, wait_started, emitted, spawned, overran, artifact_read,
                  stderr_blocked >>

\* the agent's fields and what the readiness operations look at
readyVars == << repo_dir, current_project_name, cwd, claude_on_path, ready_op,
                ready_result, pre_repo_dir, pre_project_name >>

\* one event given to _display_claude_progress on its own
renderVars == << tool_text, render_op, rendered >>

supervisorVars == << pc, approval, stdout_lines, stderr_lines, return_code, console,
                     outcome, wait_started, artifact_read >>

NoAnswer == "<none>"
NoCode == -1000
\* self._current_project_name before any project is set
NoProject == "<None>"
\* directories the process may be in
Dirs == {"/work/myproj", "/work/MyProj-fork", "/tmp/other"}
NoOp == "none"

\* execute_prompt has not been called
ExecuteIdle ==
    /\ pc = "confirm"
    /\ approval = NoAnswer
    /\ proc = "not_started"
    /\ exit_code = NoCode
    /\ stdoutOpen = FALSE
    /\ stdoutPipe = <<>>
    /\ stderrPipe = <<>>
    /\ artifact \in {Missing, Present(StaleText)}
    /\ stdout_lines = <<>>
    /\ stderr_lines = <<>>
    /\ return_code = NoCode
    /\ console = <<>>
    /\ outcome = NoOutcome
    /\ clock = 0
    /\ wait_started = 0
    /\ emitted = <<>>
    /\ spawned = 0
    /\ overran = FALSE
    /\ artifact_read = FALSE
    /\ stderr_blocked = FALSE

\* no event has been displayed on its own
RenderIdle == tool_text = "" /\ render_op = NoOp /\ rendered = <<>>

\* lines 17-19: __init__ takes repo_dir from os.getcwd()
Init ==
    /\ ExecuteIdle
    /\ RenderIdle
    /\ repo_dir = "/work/myproj"
    /\ cwd = "/work/myproj"
    /\ current_project_name = NoProject
    /\ claude_on_path = TRUE
    /\ ready_op = NoOp
    /\ ready_result = FALSE
    /\ pre_repo_dir = repo_dir
    /\ pre_project_name = current_project_name

(***************************************************************************)
(* execute_prompt.                                                         *)
(***************************************************************************)
\* a variant of Approved: approval.lower().startswith('y')
ApprovedByPrefix(answer) == answer # "" /\ lower(Head(answer)) = "y"

\* line 121: the answer approves the execution
Approved(answer) == lower(answer) = "y"

\* lines 122-126
DeclinedResponse ==
    AgentResponse("Operation cancelled by user", FALSE,
                  "User did not approve execution with dangerous permissions")

\* a variant of ExceptionResponse: error_message=str(e)
ExceptionResponseBare(e) == AgentResponse("", FALSE, e)

\* lines 212-217: except Exception as e
ExceptionResponse(e) ==
    AgentResponse("", FALSE, "Failed to execute Claude command: " \o e)

\* lines 118-126: the confirmation prompt
Confirm(answer) ==
    /\ pc = "confirm"
    /\ approval' = answer
    /\ IF Approved(answer)
       THEN pc' = "spawn" /\ UNCHANGED outcome
       ELSE pc' = "done" /\ outcome' = DeclinedResponse
    /\ UNCHANGED << proc, exit_code, stdoutOpen, stdoutPipe, stderrPipe, artifact,
                    stdout_lines, stderr_lines, return_code, console, clock,
                    wait_started, emitted, spawned, overran,
                    artifact_read,
                    stderr_blocked >>
    /\ UNCHANGED << readyVars, renderVars >>

\* lines 145-157: subprocess.Popen starts the agent
Spawn ==
    /\ pc = "spawn"
    /\ proc' = "running"
    /\ stdoutOpen' = TRUE
    /\ spawned' = spawned + 1
    /\ stdout_lines' = <<>>
    /\ stderr_lines' = <<>>
    /\ pc' = "read"
    /\ UNCHANGED << approval, exit_code, stdoutPipe, stderrPipe, artifact, return_code,
                    console, outcome, clock, wait_started, emitted, overran,
                    artifact_read,
                    stderr_blocked >>
    /\ UNCHANGED << readyVars, renderVars >>

\* a variant of LaunchFailure: Popen is called outside the try, and the
\* OSError reaches the caller
LaunchFailureUncaught(e) ==
    /\ pc = "spawn"
    /\ outcome' = [kind |-> "raised", success |-> FALSE, content |-> "",
                   error_message |-> e]
    /\ pc' = "done"
    /\ UNCHANGED << approval, proc, exit_code, stdoutOpen, stdoutPipe, stderrPipe,
                    artifact, stdout_lines, stderr_lines, return_code, console, clock,
                    wait_started, emitted, spawned, overran, artifact_read,
                    stderr_blocked >>
    /\ UNCHANGED << readyVars, renderVars >>

\* lines 145-153, 212-217: subprocess.Popen raises
LaunchFailure(e) ==
    /\ pc = "spawn"
    /\ outcome' = ExceptionResponse(e)
    /\ pc' = "done"
    /\ UNCHANGED << approval, proc, exit_code, stdoutOpen, stdoutPipe, stderrPipe,
                    artifact, stdout_lines, stderr_lines, return_code, console, clock,
                    wait_started, emitted, spawned, overran,
                    artifact_read,
                    stderr_blocked >>
    /\ UNCHANGED << readyVars, renderVars >>

\* a loop that shows the newest event first
ReadLineNewestFirst ==
    /\ pc = "read"
    /\ stdoutPipe # <<>>
    /\ LET output == Head(stdoutPipe)
           shown == ProcessLine(output)
       IN  /\ stdoutPipe' = Tail(stdoutPipe)
           /\ stdout_lines' = Append(stdout_lines, strip(output))
           /\ console' = shown.out \o console
           /\ IF shown.exc = NoException
              THEN UNCHANGED << pc, outcome >>
              ELSE pc' = "done" /\ outcome' = ExceptionResponse(shown.exc)
    /\ UNCHANGED << approval, proc, exit_code, stdoutOpen, stderrPipe, artifact,
                    stderr_lines, return_code, clock, wait_started, emitted, spawned,
                    overran, artifact_read, stderr_blocked >>
    /\ UNCHANGED << readyVars, renderVars >>

\* a loop that records a line only once json.loads has accepted it
ReadLineRecordsParsed ==
    /\ pc = "read"
    /\ stdoutPipe # <<>>
    /\ LET output == Head(stdoutPipe)
           shown == ProcessLine(output)
       IN  /\ stdoutPipe' = Tail(stdoutPipe)
           /\ stdout_lines' = IF json_loads(strip(output)).ok
                              THEN Append(stdout_lines, strip(output))
                              ELSE stdout_lines
           /\ console' = console \o shown.out
           /\ IF shown.exc = NoException
              THEN UNCHANGED << pc, outcome >>
              ELSE pc' = "done" /\ outcome' = ExceptionResponse(shown.exc)
    /\ UNCHANGED << approval, proc, exit_code, stdoutOpen, stderrPipe, artifact,
                    stderr_lines, return_code, clock, wait_started, emitted, spawned,
                    overran, artifact_read, stderr_blocked >>
    /\ UNCHANGED << readyVars, renderVars >>

\* lines 161-173: readline returns a line
ReadLine ==
    /\ pc = "read"
    /\ stdoutPipe # <<>>
    /\ LET output == Head(stdoutPipe)
           shown == ProcessLine(output)
       IN  /\ stdoutPipe' = Tail(stdoutPipe)
           /\ stdout_lines' = Append(stdout_lines, strip(output))
           /\ console' = console \o shown.out
           /\ IF shown.exc = NoException
              THEN UNCHANGED << pc, outcome >>
              ELSE pc' = "done" /\ outcome' = ExceptionResponse(shown.exc)
    /\ UNCHANGED << approval, proc, exit_code, stdoutOpen, stderrPipe, artifact,
                    stderr_lines, return_code, clock, wait_started, emitted, spawned,
                    overran,
                    artifact_read,
                    stderr_blocked >>
    /\ UNCHANGED << readyVars, renderVars >>

\* lines 161-163: readline returns '' at end of stream; the loop ends only when
\* poll() reports that the subprocess has exited
ReadEndOfStream ==
    /\ pc = "read"
    /\ stdoutPipe = <<>>
    /\ ~stdoutOpen
    /\ IF proc # "running"
       THEN pc' = "wait" /\ wait_started' = clock
       ELSE UNCHANGED << pc, wait_started >>
    /\ UNCHANGED << approval, proc, exit_code, stdoutOpen, stdoutPipe, stderrPipe,
                    artifact, stdout_lines, stderr_lines, return_code, console, outcome,
                    clock, emitted, spawned, overran,
                    artifact_read,
                    stderr_blocked >>
    /\ UNCHANGED << readyVars, renderVars >>

\* lines 176-177, 187-189: process.wait(timeout) returns the exit code of an
\* exited subprocess; for one still running once the timeout has passed it
\* raises TimeoutExpired, and the handler kills the subprocess and raises
\* AgentTimeoutException, which reaches the caller unless the handler of line
\* 212 catches it (the class is defined outside this file)
Wait ==
    /\ pc = "wait"
    /\ IF proc # "running"
       THEN /\ return_code' = exit_code
            /\ pc' = "stderr"
            /\ UNCHANGED << proc, outcome >>
       ELSE /\ clock - wait_started >= agent_timeout_seconds
            /\ proc' = "killed"
            /\ outcome' \in
                 { AgentTimeoutException(agent_timeout_seconds,
                                         "Claude command execution timed out"),
                   ExceptionResponse("Claude command execution timed out") }
            /\ pc' = "done"
            /\ UNCHANGED return_code
    /\ UNCHANGED << approval, exit_code, stdoutOpen, stdoutPipe, stderrPipe, artifact,
                    stdout_lines, stderr_lines, console, clock, wait_started, emitted,
                    spawned, overran,
                    artifact_read,
                    stderr_blocked >>
    /\ UNCHANGED << readyVars, renderVars >>

\* lines 180-182: the rest of standard error, read as one block
ReadStderr ==
    /\ pc = "stderr"
    /\ LET stderr_output == join("", stderrPipe)
       IN  stderr_lines' = IF stderr_output # "" THEN Append(stderr_lines, stderr_output)
                                                 ELSE stderr_lines
    /\ stderrPipe' = <<>>
    /\ UNCHANGED stderr_blocked
    /\ pc' = "reconcile"
    /\ UNCHANGED << approval, proc, exit_code, stdoutOpen, stdoutPipe, artifact,
                    stdout_lines, return_code, console, outcome, clock, wait_started,
                    emitted, spawned, overran,
                    artifact_read >>
    /\ UNCHANGED << readyVars, renderVars >>

\* a variant of ErrorMessage: the fallback after `or` is missing
ErrorMessageNoFallback(lines, code) == join("\n", lines)

\* line 201
ErrorMessage(lines, code) ==
    IF join("\n", lines) # "" THEN join("\n", lines)
    ELSE "Command failed with return code " \o ToString(code)

\* lines 200-207
FailedResponse(lines, code) == AgentResponse("", FALSE, ErrorMessage(lines, code))

\* lines 196-199
SuccessResponse(content) == AgentResponse(content, TRUE, DefaultErrorMessage)

\* self._read_output_file(): the artifact's text, or a failure
ReadOutputFile(file) ==
    IF file.state = "present"
    THEN { [ok |-> TRUE, text |-> file.text, exc |-> NoException] }
    ELSE { [ok |-> FALSE, text |-> "", exc |-> e] : e \in ReaderErrors }

\* lines 191-207, 212-217: the verdict
Reconcile ==
    /\ pc = "reconcile"
    /\ IF return_code = 0
       THEN \E read \in ReadOutputFile(artifact) :
               outcome' = IF read.ok THEN SuccessResponse(read.text)
                                     ELSE ExceptionResponse(read.exc)
       ELSE outcome' = FailedResponse(stderr_lines, return_code)
    /\ artifact_read' = (return_code = 0)
    /\ pc' = "done"
    /\ UNCHANGED << approval, proc, exit_code, stdoutOpen, stdoutPipe, stderrPipe,
                    artifact, stdout_lines, stderr_lines, return_code, console, clock,
                    wait_started, emitted, spawned, overran,
                    stderr_blocked >>
    /\ UNCHANGED << readyVars, renderVars >>

(***************************************************************************)
(* The subprocess and time, observed while the call is in progress.        *)
(***************************************************************************)
ProcWriteLine(line) ==
    /\ pc # "done" /\ proc = "running" /\ ~stderr_blocked /\ stdoutOpen
    /\ Len(emitted) < MaxLines
    /\ stdoutPipe' = Append(stdoutPipe, line)
    /\ emitted' = Append(emitted, line)
    /\ UNCHANGED << supervisorVars, proc, exit_code, stdoutOpen, stderrPipe, artifact,
                    clock, spawned, overran,
                    stderr_blocked >>
    /\ UNCHANGED << readyVars, renderVars >>

\* the subprocess writes to standard error: the pipe takes the chunk while it
\* has room; once it is full the write blocks until the pipe is read, which
\* execute_prompt does only at line 180
ProcWriteStderr(chunk) ==
    /\ pc # "done" /\ proc = "running" /\ ~stderr_blocked
    /\ Len(stderrPipe) < MaxStderr
    /\ IF Len(stderrPipe) < StderrPipeCapacity
       THEN stderrPipe' = Append(stderrPipe, chunk) /\ UNCHANGED stderr_blocked
       ELSE stderr_blocked' = TRUE /\ UNCHANGED stderrPipe
    /\ UNCHANGED << supervisorVars, proc, exit_code, stdoutOpen, stdoutPipe, artifact,
                    clock, emitted, spawned, overran >>
    /\ UNCHANGED << readyVars, renderVars >>

ProcCloseStdout ==
    /\ pc # "done" /\ proc = "running" /\ ~stderr_blocked /\ stdoutOpen
    /\ stdoutOpen' = FALSE
    /\ UNCHANGED << supervisorVars, proc, exit_code, stdoutPipe, stderrPipe, artifact,
                    clock, emitted, spawned, overran,
                    stderr_blocked >>
    /\ UNCHANGED << readyVars, renderVars >>

ProcWriteArtifact ==
    /\ pc # "done" /\ proc = "running" /\ ~stderr_blocked
    /\ artifact # Present(FreshText)
    /\ artifact' = Present(FreshText)
    /\ UNCHANGED << supervisorVars, proc, exit_code, stdoutOpen, stdoutPipe, stderrPipe,
                    clock, emitted, spawned, overran,
                    stderr_blocked >>
    /\ UNCHANGED << readyVars, renderVars >>

ProcExit(code) ==
    /\ pc # "done" /\ proc = "running" /\ ~stderr_blocked
    /\ proc' = "exited"
    /\ exit_code' = code
    /\ stdoutOpen' = FALSE
    /\ UNCHANGED << supervisorVars, stdoutPipe, stderrPipe, artifact, clock, emitted,
                    spawned, overran,
                    stderr_blocked >>
    /\ UNCHANGED << readyVars, renderVars >>

Tick ==
    /\ pc # "done" /\ proc = "running"
    /\ clock < MaxClock
    /\ clock' = clock + 1
    /\ overran' = (overran \/ (proc = "running" /\ clock' > agent_timeout_seconds))
    /\ UNCHANGED << supervisorVars, proc, exit_code, stdoutOpen, stdoutPipe, stderrPipe,
                    artifact, emitted, spawned,
                    stderr_blocked >>
    /\ UNCHANGED << readyVars, renderVars >>

Next ==
    \/ \E answer \in Answers : Confirm(answer)
    \/ Spawn
    \/ \E e \in LaunchErrors : LaunchFailure(e)
    \/ ReadLine
    \/ ReadEndOfStream
    \/ Wait
    \/ ReadStderr
    \/ Reconcile
    \/ \E line \in StreamLines : ProcWriteLine(line)
    \/ \E chunk \in StderrChunks : ProcWriteStderr(chunk)
    \/ ProcCloseStdout
    \/ ProcWriteArtifact
    \/ \E code \in ExitCodes : ProcExit(code)
    \/ Tick

Spec == Init /\ [][Next]_vars

(***************************************************************************)
(* The readiness operations (lines 219-303) and what changes around them.  *)
(* They are called while no execute_prompt call is in progress.  The       *)
(* messages they print are not kept.                                       *)
(***************************************************************************)
\* lines 221-238: `which claude` returned 0
CommandAvailable == claude_on_path

\* lines 245-257 for a given project name
CorrectProject(name) ==
    IF name \in {NoProject, ""} THEN FALSE
    ELSE Contains(lower(basename(cwd)), lower(name))

\* CodingAgent.set_current_project(path): the project is named after the
\* directory
ProjectNameOf(path) == basename(path)

\* the operation `op` returns `result`, leaving the project name `name`
ReadinessReturns(op, result, name) ==
    /\ pc = "confirm"
    /\ ready_op' = op
    /\ ready_result' = result
    /\ pre_repo_dir' = repo_dir
    /\ pre_project_name' = current_project_name
    /\ current_project_name' = name
    /\ UNCHANGED << repo_dir, cwd, claude_on_path >>
    /\ UNCHANGED << executeVars, renderVars >>

\* lines 219-238
is_coding_agent_open ==
    ReadinessReturns("is_coding_agent_open", CommandAvailable, current_project_name)

\* lines 240-257
is_ide_open_with_correct_project ==
    ReadinessReturns("is_ide_open_with_correct_project",
                     CorrectProject(current_project_name), current_project_name)

\* lines 259-277
is_coding_agent_open_with_project ==
    ReadinessReturns("is_coding_agent_open_with_project",
                     CommandAvailable /\ CorrectProject(current_project_name),
                     current_project_name)

\* a variant of open_coding_interface that also refreshes repo_dir:
\* self.repo_dir = os.getcwd()
open_coding_interface_refreshing ==
    /\ pc = "confirm"
    /\ ready_op' = "open_coding_interface"
    /\ ready_result' = (CommandAvailable /\ CorrectProject(ProjectNameOf(cwd)))
    /\ pre_repo_dir' = repo_dir
    /\ pre_project_name' = current_project_name
    /\ repo_dir' = cwd
    /\ current_project_name' = ProjectNameOf(cwd)
    /\ UNCHANGED << cwd, claude_on_path >>
    /\ UNCHANGED << executeVars, renderVars >>

\* lines 279-303: the project is set from repo_dir (lines 284-285) before the
\* checks; both branches of the else return False
open_coding_interface ==
    LET name == IF repo_dir # "" THEN ProjectNameOf(repo_dir)
                                 ELSE current_project_name
    IN  ReadinessReturns("open_coding_interface",
                         CommandAvailable /\ CorrectProject(name), name)

\* the process changes its working directory
ChangeDirectory(dir) ==
    /\ pc = "confirm"
    /\ cwd # dir
    /\ cwd' = dir
    /\ ready_op' = NoOp
    /\ UNCHANGED << repo_dir, current_project_name, claude_on_path, ready_result,
                    pre_repo_dir, pre_project_name >>
    /\ UNCHANGED << executeVars, renderVars >>

\* the claude binary is installed or removed
ChangeInstallation ==
    /\ pc = "confirm"
    /\ claude_on_path' = ~claude_on_path
    /\ ready_op' = NoOp
    /\ UNCHANGED << repo_dir, current_project_name, cwd, ready_result, pre_repo_dir,
                    pre_project_name >>
    /\ UNCHANGED << executeVars, renderVars >>

\* the workflow names the project itself: set_current_project(path)
SetCurrentProject(path) ==
    /\ pc = "confirm"
    /\ current_project_name # ProjectNameOf(path)
    /\ current_project_name' = ProjectNameOf(path)
    /\ ready_op' = NoOp
    /\ UNCHANGED << repo_dir, cwd, claude_on_path, ready_result, pre_repo_dir,
                    pre_project_name >>
    /\ UNCHANGED << executeVars, renderVars >>

\* an agent constructed in any directory, the process possibly elsewhere since
ReadyInit ==
    /\ ExecuteIdle
    /\ RenderIdle
    /\ repo_dir \in Dirs
    /\ cwd \in Dirs
    /\ current_project_name = NoProject
    /\ claude_on_path \in BOOLEAN
    /\ ready_op = NoOp
    /\ ready_result = FALSE
    /\ pre_repo_dir = repo_dir
    /\ pre_project_name = current_project_name

ReadyNext ==
    \/ is_coding_agent_open
    \/ is_ide_open_with_correct_project
    \/ is_coding_agent_open_with_project
    \/ open_coding_interface
    \/ \E dir \in Dirs : ChangeDirectory(dir)
    \/ ChangeInstallation
    \/ \E path \in Dirs : SetCurrentProject(path)

ReadySpec == ReadyInit /\ [][ReadyNext]_vars

(***************************************************************************)
(* _display_claude_progress on one event: a user event with one            *)
(* tool_result, or an assistant event with one Bash tool_use.              *)
(***************************************************************************)
RECURSIVE Repeat(_, _)
Repeat(c, n) ==
    IF n <= 0 THEN ""
    ELSE IF n = 1 THEN c
    ELSE Repeat(c, n \div 2) \o Repeat(c, n - (n \div 2))

\* lengths on both sides of the cuts at 50 (line 88) and 100 (lines 100, 102)
TextLengths == {0, 1, 49, 50, 51, 99, 100, 101, 120}
\* what the branches of lines 97 and 99 look for, in several cases
Keywords == {"", "error", "Failed", "ERROR", "successfully", "Successfully failed"}
\* the keyword first, or last
KeywordFirst(k, n) == k \o Repeat("x", n - Len(k))
KeywordLast(k, n) == Repeat("x", n - Len(k)) \o k
Texts == {KeywordFirst(k, n) : k \in Keywords, n \in TextLengths}
             \cup {KeywordLast(k, n) : k \in Keywords, n \in TextLengths}

\* {"type":"user","message":{"content":[{"type":"tool_result","content":text}]}}
ToolResultEvent(text) ==
    JDict("type" :> JStr("user")
          @@ "message" :> JDict("content" :> JList(<<
                 JDict("type" :> JStr("tool_result") @@ "content" :> JStr(text)) >>)))

\* {"type":"assistant","message":{"content":[{"type":"tool_use","name":"Bash",
\*  "input":{"command":text}}]}}
BashEvent(text) ==
    JDict("type" :> JStr("assistant")
          @@ "message" :> JDict("content" :> JList(<<
                 JDict("type" :> JStr("tool_use") @@ "name" :> JStr("Bash")
                       @@ "input" :> JDict("command" :> JStr(text))) >>)))

\* _display_claude_progress(json_obj) for a tool result with the text
ShowToolResult ==
    /\ render_op = NoOp
    /\ render_op' = "tool_result"
    /\ rendered' = _display_claude_progress(ToolResultEvent(tool_text)).out
    /\ UNCHANGED << tool_text, executeVars, readyVars >>

\* _display_claude_progress(json_obj) for a Bash tool use with the command
ShowBashCommand ==
    /\ render_op = NoOp
    /\ render_op' = "tool_use"
    /\ rendered' = _display_claude_progress(BashEvent(tool_text)).out
    /\ UNCHANGED << tool_text, executeVars, readyVars >>

RenderInit ==
    /\ ExecuteIdle
    /\ repo_dir = "/work/myproj"
    /\ cwd = "/work/myproj"
    /\ current_project_name = NoProject
    /\ claude_on_path = TRUE
    /\ ready_op = NoOp
    /\ ready_result = FALSE
    /\ pre_repo_dir = repo_dir
    /\ pre_project_name = current_project_name
    /\ tool_text \in Texts
    /\ render_op = NoOp
    /\ rendered = <<>>

RenderNext == ShowToolResult \/ ShowBashCommand

RenderSpec == RenderInit /\ [][RenderNext]_vars

(***************************************************************************)
(* Properties.                                                             *)
(***************************************************************************)
Finished == pc = "done"
ReturnedFailure == outcome.kind = "returned" /\ ~outcome.success
ReturnedSuccess == outcome.kind = "returned" /\ outcome.success
RaisedTimeout == outcome.kind = "raised"
Affirmative == {"y", "Y"}
\* everything the subprocess wrote to standard error
StderrText == join("\n", stderr_lines) \o join("", stderrPipe)

\* C1: whenever execute_prompt has finished with a failure (an AgentResponse
\* with success=false, or AgentTimeoutException), the subprocess it spawned
\* is no longer running.
C1_FailureLeavesNoRunningProcess ==
    (Finished /\ (ReturnedFailure \/ RaisedTimeout)) => proc # "running"

\* every line the subprocess wrote renders without an exception
StreamRenders ==
    \A i \in 1..Len(emitted) : ProcessLine(emitted[i]).exc = NoException

\* C2: a call whose subprocess was still running after the configured
\* timeout (writing lines, silent, or with standard output closed) finishes
\* with AgentTimeoutException and the subprocess killed.  Stated for the
\* subprocesses whose lines all render, so that the call cannot end through
\* the exception handler of line 212 instead.
C2_OverrunEndsInAgentTimeout ==
    (Finished /\ overran /\ StreamRenders) => (RaisedTimeout /\ proc = "killed")

\* process.wait is entered only for a subprocess that has already exited, so
\* its timeout never expires and the subprocess is never killed
WaitNeverTimesOut ==
    /\ pc = "wait" => proc = "exited"
    /\ proc # "killed"
    /\ ~RaisedTimeout

\* C4: a subprocess exists only once an affirmative answer ('y' or 'Y') has
\* been read; after any other answer nothing is spawned and the call has
\* returned success=false with the did-not-approve message.
C4_SpawnOnlyAfterApproval ==
    /\ (spawned > 0 \/ proc # "not_started") => approval \in Affirmative
    /\ (approval # NoAnswer /\ approval \notin Affirmative) =>
          /\ spawned = 0 /\ proc = "not_started"
          /\ Finished /\ ReturnedFailure
          /\ Contains(outcome.error_message, "did not approve")

C4_Witness_Declined ==
    Finished /\ approval = "N" /\ spawned = 0 /\ ReturnedFailure

\* C5: no line read from standard output ends the stream loop: a call that
\* spawned a subprocess finishes only after the loop ended at end of stream
\* and the exit code was taken (or by the timeout).
C5_NoLineAbortsTheLoop ==
    (Finished /\ spawned > 0) => (return_code # NoCode \/ RaisedTimeout)

\* C6: if the subprocess exited with code 0 and the result artifact cannot
\* be read, the call returns success=false with a non-empty error_message.
C6_UnreadableArtifactFails ==
    (Finished /\ proc = "exited" /\ exit_code = 0 /\ artifact.state # "present") =>
        (ReturnedFailure /\ outcome.error_message # "")

C6_Witness_MissingArtifact ==
    /\ Finished /\ return_code = 0 /\ artifact = Missing
    /\ outcome = ExceptionResponse("")

\* C7: if the operator confirmed, the subprocess exited with code 0 and the
\* artifact holds text X, the call returns success=true with content X,
\* whatever the subprocess wrote to standard output and standard error.
C7_ZeroExitReturnsArtifact ==
    (Finished /\ proc = "exited" /\ exit_code = 0 /\ artifact.state = "present") =>
        (ReturnedSuccess /\ outcome.content = artifact.text)

\* C8: if the subprocess exited with a non-zero code N, the call returns
\* success=false with empty content and error_message equal to the standard
\* error text, or to "Command failed with return code N" when that is empty.
C8_NonZeroExitReportsStderr ==
    (Finished /\ proc = "exited" /\ exit_code # 0) =>
        /\ ReturnedFailure
        /\ outcome.content = ""
        /\ outcome.error_message =
             IF StderrText # "" THEN StderrText
             ELSE "Command failed with return code " \o ToString(exit_code)

\* C9: every AgentResponse returned satisfies: success=true implies an empty
\* error_message and content equal to the artifact's text; success=false
\* implies empty content.
C9_ResponseInvariant ==
    outcome.kind = "returned" =>
        /\ outcome.success =>
             (outcome.error_message = "" /\ artifact.state = "present"
              /\ outcome.content = artifact.text)
        /\ ~outcome.success => outcome.content = ""

\* C10: every AgentResponse returned with success=false carries a non-empty
\* error_message.
C10_FailureHasMessage ==
    ReturnedFailure => outcome.error_message # ""

C10_Witness_GenericMessage ==
    /\ Finished /\ return_code = 2 /\ stderr_lines = <<>>
    /\ outcome = AgentResponse("", FALSE, "Command failed with return code 2")

\* C11: if the agent binary cannot be started, the call returns (does not
\* raise) success=false with the launch-failure message, which is none of the
\* messages of a non-zero exit; the read loop was not entered, no exit code
\* was waited for, standard error and the artifact were not read.
C11_LaunchFailureIsReported ==
    (Finished /\ approval \in Affirmative /\ spawned = 0) =>
        /\ ReturnedFailure
        /\ \E e \in LaunchErrors :
              outcome.error_message = "Failed to execute Claude command: " \o e
        /\ \A code \in ExitCodes, chunk \in StderrChunks :
              /\ outcome.error_message # ErrorMessage(<<>>, code)
              /\ outcome.error_message # ErrorMessage(<<chunk>>, code)
        /\ proc = "not_started"
        /\ stdout_lines = <<>> /\ console = <<>>
        /\ return_code = NoCode /\ stderr_lines = <<>>
        /\ ~artifact_read

C11_Witness_LaunchFailed ==
    /\ Finished /\ approval = "y" /\ spawned = 0
    /\ outcome = ExceptionResponse("[Errno 2] No such file or directory: 'claude'")

ReadinessChecks ==
    {"is_coding_agent_open", "is_ide_open_with_correct_project",
     "is_coding_agent_open_with_project"}
NothingSpawned == spawned = 0 /\ proc = "not_started"

EndOfStreamAndExited == stdoutPipe = <<>> /\ ~stdoutOpen /\ proc # "running"

\* C13: the stream loop ends only by a read that returns end of stream with
\* the subprocess exited (the loop then goes on to the wait), or by the
\* timeout; it does not end while the subprocess is running, nor by any
\* other cause.
C13_LoopEndsOnlyAtEndOfStream ==
    [][ (pc = "read" /\ pc' # "read") =>
            \/ (EndOfStreamAndExited /\ pc' = "wait")
            \/ outcome'.kind = "raised" ]_vars

\* the supervisor is in the stream loop (lines 160-173), before the only read
\* of standard error (line 180)
InStreamLoop == pc = "read"

\* the subprocess cannot take a step: its write to standard error waits for
\* the pipe to be read
SubprocessBlocked == proc = "running" /\ stderr_blocked

\* C14: the supervisor and the subprocess never deadlock on the two pipes:
\* the subprocess is never blocked in a write to standard error while the
\* supervisor is in the stream loop, which does not read standard error.
C14_NoPipeDeadlock == ~(InStreamLoop /\ SubprocessBlocked)

\* the lines the loop has read so far, and how many
LinesRead == Len(stdout_lines)
ReadSoFar == SubSeq(emitted, 1, LinesRead)

\* what showing the given lines one after the other prints
RECURSIVE RenderedInOrder(_)
RenderedInOrder(lines) ==
    IF lines = <<>> THEN <<>>
    ELSE ProcessLine(Head(lines)).out \o RenderedInOrder(Tail(lines))

\* the loop has ended by its break (line 163)
LoopEndedNormally == pc \in {"wait", "stderr", "reconcile"} \/ (Finished /\ return_code # NoCode)

\* C15: the console holds the events of exactly the lines read so far, in
\* the order the subprocess emitted them: the event of line k is shown before
\* line k+1 is taken from the pipe, the lines not yet read wait in emission
\* order, and once the loop has ended by its break every emitted line has
\* been shown.
C15_RenderedInEmissionOrder ==
    /\ LinesRead <= Len(emitted)
    /\ console = RenderedInOrder(ReadSoFar)
    /\ stdoutPipe = SubSeq(emitted, LinesRead + 1, Len(emitted))
    /\ LoopEndedNormally => console = RenderedInOrder(emitted)

C15_Witness_TwoEventsShown ==
    /\ pc = "wait"
    /\ emitted = << L_assistant, L_text >>
    /\ ProcessLine(L_assistant).out # <<>> /\ ProcessLine(L_text).out # <<>>
    /\ console = ProcessLine(L_assistant).out \o ProcessLine(L_text).out
    /\ console # ProcessLine(L_text).out \o ProcessLine(L_assistant).out

\* a line without its terminating newline
WithoutNewline(line) ==
    IF Len(line) > 0 /\ SubSeq(line, Len(line), Len(line)) = "\n"
    THEN SubSeq(line, 1, Len(line) - 1)
    ELSE line

\* the transcript has no more entries than lines were emitted, and once the
\* loop has ended by its break it has one entry per emitted line
TranscriptComplete ==
    /\ Len(stdout_lines) <= Len(emitted)
    /\ LoopEndedNormally => Len(stdout_lines) = Len(emitted)

\* C16 as stated: every line read, valid JSON or not, is in the transcript
\* before the next is read, and when the loop has ended normally the
\* transcript holds exactly the emitted lines, once each and in order.
C16_TranscriptHoldsEmittedLines ==
    /\ TranscriptComplete
    /\ \A i \in 1..Len(stdout_lines) : stdout_lines[i] = WithoutNewline(emitted[i])

\* C16: the same, for the lines with their leading and trailing whitespace
\* removed (output.strip(), line 165): every line read, valid JSON or not,
\* has its stripped text in the transcript before the next is read, once
\* each and in emission order; a line of whitespace is recorded as ''.
C16_TranscriptHoldsStrippedLines ==
    /\ TranscriptComplete
    /\ \A i \in 1..Len(stdout_lines) : stdout_lines[i] = strip(emitted[i])

C16_Witness_InvalidLinesRecorded ==
    /\ pc = "wait"
    /\ emitted = << L_blank, L_text >>
    /\ stdout_lines = << "", "working on it" >>

\* the branches of lines 97-102 for a tool-result text
SuccessBranch(text) == Contains(lower(text), "successfully")
FailureBranch(text) ==
    /\ ~SuccessBranch(text)
    /\ Contains(lower(text), "error") \/ Contains(lower(text), "failed")
NeutralBranch(text) == ~SuccessBranch(text) /\ ~FailureBranch(text)

TruncationIndicator == "..."
\* the first n characters of the text, with the indicator iff the text is longer
CutAt(text, n) == Prefix(text, n) \o (IF Len(text) > n THEN TruncationIndicator ELSE "")
\* what precedes the text on the status line: failure marker, neutral
StatusLabels == {"   Error: ", "   "}

\* C17: in the failure branch and in the neutral branch, the status line of a
\* tool-result text shows exactly the first 100 characters of the text, and
\* carries the truncation indicator if and only if the text is longer than
\* 100 characters.
C17_IndicatorIffLongerThan100 ==
    (render_op = "tool_result" /\ ~SuccessBranch(tool_text)) =>
        \E label \in StatusLabels : rendered = << label \o CutAt(tool_text, 100) >>

\* C18: a Bash tool_use with a non-empty command is summarised by the whole
\* command and no marker when the command has at most 50 characters, and by
\* exactly its first 50 characters and the marker when it is longer.
C18_BashCommandCutAt50 ==
    (render_op = "tool_use" /\ tool_text # "") =>
        /\ Len(rendered) = 2
        /\ rendered[2] = "   Running: " \o
              (IF Len(tool_text) <= 50 THEN tool_text
               ELSE Prefix(tool_text, 50) \o TruncationIndicator)

C18_Witness_CommandCut ==
    /\ render_op = "tool_use"
    /\ tool_text = Repeat("x", 51)
    /\ rendered[2] = "   Running: " \o Repeat("x", 50) \o TruncationIndicator

====
